---------------------------- MODULE Spec2Model ----------------------------
(***************************************************************************)
(* A model of ev_bot: the LangGraph orchestration of the Flight Agent and  *)
(* the Hotel Agent (agent_orchestration.py), the agents' run_agent         *)
(* (flight_agent.py, hotel_agent.py), the Flight Agent's inspiration tool  *)
(* and the requests-based AmadeusClient (amadeus_client.py).               *)
(*                                                                         *)
(* It also covers the Hotel Agent's search tool (hotel_agent.py), the       *)
(* Telegram sender (telegram_sender.py) and the multi-channel runner       *)
(* (run_multi_channel.py).                                                 *)
(*                                                                         *)
(* The specifications share the module's variables:                        *)
(*   Spec          one orchestration run (agent_orchestration)             *)
(*   SpecClient    construction of an AmadeusClient and its search calls   *)
(*   SpecTool      invocations of FlightAgent._search_flight_inspiration   *)
(*   SpecHotelTool invocations of HotelAgent._search_hotel_offers          *)
(*   SpecParse     run_agent handling one textual answer of the LLM        *)
(*   SpecSender    one run of telegram_sender.main                         *)
(*   SpecRunner    one run of run_multi_channel.main                       *)
(*   SpecSendToTelegram  one call of telegram_sender.send_to_telegram      *)
(*   SpecWiki      invocations of shared_tools.get_wikipedia_image         *)
(* Each keeps the other components' variables at their idle values.        *)
(***************************************************************************)
EXTENDS Integers, Sequences, FiniteSets, TLC

VARIABLES
    \* ---- agent_orchestration.py: GraphState and the run's position
    node,                 \* graph node the run is in: START, FlightAgent, HotelAgent, MergeOutput, END, RAISED
    at,                   \* position inside the node: "enter", "await", "parse", "loop", "idle"
    stage_log,            \* nodes entered so far, in order
    flight_ideas,         \* GraphState.flight_ideas
    hotel_offers,         \* GraphState.hotel_offers
    combined_suggestions, \* GraphState.combined_suggestions
    hotel_results,        \* hotel_agent_node's local list
    llm_output,           \* result.output of the Flight Agent's LLM call, while run_agent handles it
    flight_llm_calls,     \* how often FlightAgent.agent.run was invoked
    hotel_calls,          \* prompts handed to HotelAgent.run_agent, in call order
    hotel_outcomes,       \* per finished Hotel Agent invocation: "ok" or the exception it raised
    error,                \* exception that escaped the graph, "none" otherwise
    \* ---- amadeus_client.py: one AmadeusClient
    cred,                 \* [arg_id, arg_secret, cfg_id, cfg_secret]: constructor arguments and settings
    client_state,         \* "new", "authenticating", "ready", "ctor_failed"
    ctor_error,           \* exception the constructor raised, "none" otherwise
    access_token,         \* AmadeusClient.access_token
    auth_log,             \* outcomes of the authentication requests sent, in order
    op,                   \* search operation in progress or last finished, "none" before the first
    call_state,           \* "idle", "running", "returned", "raised"
    attempt_log,          \* outcomes of the HTTP attempts of the current / last call, in order
    call_error,           \* exception the last call surfaced, "none" otherwise
    calls_done,           \* number of finished search calls
    \* ---- flight_agent.py: FlightAgent._search_flight_inspiration
    fixture,              \* what loading debug_samples/inspiration_API_sample.json yields
    tool_state,           \* "idle", "live", "fallback", "returned", "raised"
    live_outcome,         \* outcome of the live flight_destinations.get of the current invocation
    tool_result,          \* records the last invocation returned
    tool_error,           \* exception the last invocation raised, "none" otherwise
    tool_calls,           \* number of tool invocations started
    \* ---- hotel_agent.py: HotelAgent._search_hotel_offers
    hs_state,             \* "idle", "by_city", "offers_search", "returned", "raised"
    hs_args,              \* [city_code, check_in, check_out] of the current / last invocation
    hs_attempt,           \* value of the loop variable attempt, 0 outside an invocation
    hs_hotels,            \* outcome of hotels.by_city.get in the current invocation
    hs_offers,            \* outcome of hotel_offers_search.get in the current invocation
    hs_requests,          \* provider calls made by the current invocation, in order
    hs_result,            \* value the last invocation returned: None or the number of offers
    hs_error,             \* exception the last invocation raised, "none" otherwise
    hs_calls,             \* number of tool invocations started
    \* ---- flight_agent.py / hotel_agent.py: run_agent on one textual answer
    pa_state,             \* "idle", "answered", "done"
    pa_agent,             \* "flight" or "hotel": whose run_agent handles the answer
    pa_output,            \* result.output of agent.run
    pa_stripped,          \* raw_output after the fence handling
    pa_result,            \* what run_agent returned or raised
    \* ---- telegram_sender.py: one run of main
    tg_entry,             \* the function the run was entered at: main, or send_to_telegram alone
    tg_cfg,               \* [bot_token, channel_id] after the CLI / settings fallback
    tg_pc,                \* "start", "agent", "enrich", "build", "send", "done"
    tg_answer,            \* what AiAgent.run_agent did: raised, or returned ideas
    tg_ideas,             \* the ideas, with image_url once attach_city_images has run
    tg_messages,          \* idea_messages: (photo_url, caption) pairs
    tg_pos,               \* position of send_to_telegram's loop in idea_messages
    tg_calls,             \* delivery calls made on the Bot, in order
    tg_session,           \* "none", "open", "closed": the Bot's session
    tg_closes,            \* number of calls of bot.session.close()
    tg_error,             \* the exception send_to_telegram raised, "none" while it has not
    tg_exit,              \* exit status of the process, None while it runs
    \* ---- run_multi_channel.py: one run of main
    rc_args,              \* [source, parallel, script_exists]: command line and sender script
    rc_input,             \* [present, doc]: the configuration file or CHANNELS_CONFIG
    rc_pc,                \* "start", "running", "done"
    rc_load,              \* what the load function returned or raised
    rc_chan,              \* per channel: "pending", "running", "ok", "failed"
    rc_launches,          \* channels whose subprocess launch was attempted, in order
    rc_finished,          \* channels whose run_channel has returned, in the order they did
    rc_results,           \* main's list results
    rc_exit,              \* exit status of the process, None while it runs
    \* ---- shared_tools.py: invocations of get_wikipedia_image
    wk_state,             \* "idle", "requesting", "returned", "raised"
    wk_destination,       \* the argument of the current call
    wk_response,          \* what the request to the Wikipedia API came to
    wk_result,            \* what the call returned or raised
    wk_calls              \* number of calls made

orchVars == <<node, at, stage_log, flight_ideas, hotel_offers, combined_suggestions,
              hotel_results, llm_output, flight_llm_calls, hotel_calls, hotel_outcomes, error>>
clientVars == <<cred, client_state, ctor_error, access_token, auth_log, op, call_state,
                attempt_log, call_error, calls_done>>
toolVars == <<fixture, tool_state, live_outcome, tool_result, tool_error, tool_calls>>
hotelToolVars == <<hs_state, hs_args, hs_attempt, hs_hotels, hs_offers, hs_requests, hs_result,
                   hs_error, hs_calls>>
parseVars == <<pa_state, pa_agent, pa_output, pa_stripped, pa_result>>
senderVars == <<tg_entry, tg_cfg, tg_pc, tg_answer, tg_ideas, tg_messages, tg_pos, tg_calls,
                tg_session, tg_closes, tg_error, tg_exit>>
runnerVars == <<rc_args, rc_input, rc_pc, rc_load, rc_chan, rc_launches, rc_finished,
                rc_results, rc_exit>>
wikiVars == <<wk_state, wk_destination, wk_response, wk_result, wk_calls>>

vars == <<orchVars, clientVars, toolVars, hotelToolVars, parseVars, senderVars, runnerVars,
          wikiVars>>

----------------------------------------------------------------------------
(* Bounds of the model *)

\* longest idea list the Flight Agent's answer carries
MaxIdeas == 2
\* longest hotel list a Hotel Agent answer carries
MaxHotels == 1

----------------------------------------------------------------------------
(* Values *)

None == "None"

Codes == {"AAA", "BBB"}

\* datetime values: a calendar day and a time of day
DateTime(d, t) == [day |-> d, time |-> t]

\* (travel_start_date, travel_end_date) pairs the ideas carry
Stays == { <<DateTime(1, 0), DateTime(8, 0)>>, <<DateTime(2, 12), DateTime(9, 12)>> }

\* TravelIdea, reduced to the fields of travel_summary the orchestrator reads
TravelIdeas == { [destination_code |-> c, travel_start_date |-> s[1], travel_end_date |-> s[2]] :
                 c \in Codes, s \in Stays }

\* HotelSummary, reduced to its stay dates
HotelSummaries == { [check_in_date |-> s[1], check_out_date |-> s[2]] : s \in Stays }

SeqsUpTo(S, n) == UNION { [1..m -> S] : m \in 0..n }

IdeaLists == SeqsUpTo(TravelIdeas, MaxIdeas)
HotelLists == SeqsUpTo(HotelSummaries, MaxHotels)

\* FlightAgentOutput and HotelSearchResult
FlightAgentOutputs == { [ideas |-> l] : l \in IdeaLists }
HotelSearchResults == { [city_code |-> c, hotels |-> h] : c \in Codes, h \in HotelLists }

(***************************************************************************)
(* Text of an LLM answer, as a sequence of lexical pieces:                 *)
(*   "F" the fence ```        "j" the word json       "w" whitespace       *)
(*   "V" a JSON document that conforms to the output schema                *)
(*   "N" a JSON document that does not conform to the schema               *)
(*   "g" text that is not JSON                                             *)
(***************************************************************************)
RawTexts == { <<"V">>, <<"F", "j", "V", "F">>, <<"F", "V", "F">>,
              <<"w", "F", "j", "w", "V", "w", "F", "w">>,
              <<"g">>, <<"N">>, <<"F", "j", "g", "F">>, <<"F", "w", "j", "V", "F">>, <<>> }

HasDoc(text) == \E i \in 1..Len(text) : text[i] = "V"

\* What agent.run can come back with: an exception, a structured object, or a string
LlmOutputs(payloads, none) ==
    { [kind |-> "error", text |-> <<>>, payload |-> none] }
    \cup { [kind |-> "object", text |-> <<>>, payload |-> p] : p \in payloads }
    \cup { [kind |-> "str", text |-> t, payload |-> p] :
           t \in { x \in RawTexts : HasDoc(x) }, p \in payloads }
    \cup { [kind |-> "str", text |-> t, payload |-> none] :
           t \in { x \in RawTexts : ~HasDoc(x) } }

NoFlightOutput == [ideas |-> <<>>]
NoHotelOutput == [city_code |-> None, hotels |-> <<>>]
FlightLlmOutputs == LlmOutputs(FlightAgentOutputs, NoFlightOutput)
HotelLlmOutputs == LlmOutputs(HotelSearchResults, NoHotelOutput)
NoOutput == [kind |-> "none", text |-> <<>>, payload |-> NoFlightOutput]

----------------------------------------------------------------------------
(* run_agent: fence stripping and validation *)

RECURSIVE LStrip(_)
LStrip(s) == IF s # <<>> /\ Head(s) = "w" THEN LStrip(Tail(s)) ELSE s

RECURSIVE RStrip(_)
RStrip(s) == IF s # <<>> /\ s[Len(s)] = "w" THEN RStrip(SubSeq(s, 1, Len(s) - 1)) ELSE s

\* str.strip()
Strip(s) == RStrip(LStrip(s))

\* str.startswith(p)
StartsWith(s, p) == Len(s) >= Len(p) /\ SubSeq(s, 1, Len(p)) = p

\* str.removeprefix(p)
RemovePrefix(s, p) == IF StartsWith(s, p) THEN SubSeq(s, Len(p) + 1, Len(s)) ELSE s

\* str.removesuffix(p)
RemoveSuffix(s, p) ==
    IF Len(s) >= Len(p) /\ SubSeq(s, Len(s) - Len(p) + 1, Len(s)) = p
    THEN SubSeq(s, 1, Len(s) - Len(p)) ELSE s

\* the fence handling that knows the ```json fence only
StripFenceJsonOnly(raw) ==
    IF StartsWith(raw, <<"F", "j">>)
    THEN Strip(RemoveSuffix(RemovePrefix(raw, <<"F", "j">>), <<"F">>))
    ELSE raw

\* the "Remove Markdown-style code block" branch of run_agent, applied to the stripped text
StripFence(raw) ==
    IF StartsWith(raw, <<"F", "j">>)
    THEN Strip(RemoveSuffix(RemovePrefix(raw, <<"F", "j">>), <<"F">>))
    ELSE IF StartsWith(raw, <<"F">>)
         THEN Strip(RemoveSuffix(RemovePrefix(raw, <<"F">>), <<"F">>))
         ELSE raw

\* model_validate_json succeeds on one conforming JSON document, whitespace around it allowed
ValidatesJson(s) == Strip(s) = <<"V">>

Raised(exc, none) == [raised |-> TRUE, exc |-> exc, value |-> none]
Returned(v) == [raised |-> FALSE, exc |-> "none", value |-> v]

\* run_agent answering a failed validation with an empty result instead of raising
FlightRunAgentDefault(out) ==
    IF out.kind = "error" THEN Raised("AgentRunError", NoFlightOutput)
    ELSE IF out.kind = "object" THEN Returned(out.payload)
    ELSE IF Strip(StripFence(Strip(out.text))) = <<"V">> THEN Returned(out.payload)
         ELSE Returned(NoFlightOutput)

\* run_agent of either agent on what agent.run came back with: the exception of agent.run
\* and the validation error are logged and re-raised
RunAgent(out, none) ==
    IF out.kind = "error" THEN Raised("AgentRunError", none)
    ELSE IF out.kind = "object" THEN Returned(out.payload)
    ELSE IF ValidatesJson(StripFence(Strip(out.text))) THEN Returned(out.payload)
         ELSE Raised("ValidationError", none)

FlightRunAgent(out) == RunAgent(out, NoFlightOutput)

HotelRunAgent(out) == RunAgent(out, NoHotelOutput)

----------------------------------------------------------------------------
(* agent_orchestration.py *)

\* the graph with the edge out of HotelAgent leading to END
GraphEdgeSkipsMerge(n) ==
    CASE n = "START" -> "FlightAgent"
      [] n = "FlightAgent" -> "HotelAgent"
      [] n = "HotelAgent" -> "END"
      [] n = "MergeOutput" -> "END"
      [] OTHER -> n

\* builder.set_entry_point / add_edge
GraphEdge(n) ==
    CASE n = "START" -> "FlightAgent"
      [] n = "FlightAgent" -> "HotelAgent"
      [] n = "HotelAgent" -> "MergeOutput"
      [] n = "MergeOutput" -> "END"
      [] OTHER -> n

\* position at which a node starts
EntryAt(n) == IF n = "HotelAgent" THEN "loop" ELSE IF n = "END" THEN "idle" ELSE "enter"

\* datetime.date().isoformat(): the calendar day, the time of day dropped
IsoDate(dt) == dt.day

\* hotel_prompt of hotel_agent_node for one idea
HotelPrompt(idea) ==
    [city_code |-> idea.destination_code,
     check_in |-> IsoDate(idea.travel_start_date),
     check_out |-> IsoDate(idea.travel_end_date)]

\* a lookup that takes the last record of the code instead of the first
LastMatch(offers, dest_code) ==
    LET matches == { k \in 1..Len(offers) : offers[k].destination_code = dest_code }
    IN  IF matches = {} THEN <<>>
        ELSE offers[CHOOSE k \in matches : \A m \in matches : m <= k].hotels

\* next((h["hotels"] for h in offers if h["destination_code"] == dest_code), [])
RECURSIVE FirstMatch(_, _)
FirstMatch(offers, dest_code) ==
    IF offers = <<>> THEN <<>>
    ELSE IF Head(offers).destination_code = dest_code THEN Head(offers).hotels
         ELSE FirstMatch(Tail(offers), dest_code)

\* a merge that walks hotel_offers and looks the idea up by destination code
MergeOutputByOffers(ideas, offers) ==
    [i \in 1..Len(offers) |->
        [travel_idea |-> ideas[CHOOSE k \in 1..Len(ideas) :
                                 /\ ideas[k].destination_code = offers[i].destination_code
                                 /\ \A m \in 1..(k - 1) :
                                      ideas[m].destination_code # offers[i].destination_code],
         hotels |-> offers[i].hotels]]

\* the loop of merge_output_node
MergeOutput(ideas, offers) ==
    [i \in 1..Len(ideas) |->
        [travel_idea |-> ideas[i], hotels |-> FirstMatch(offers, ideas[i].destination_code)]]

\* a record that takes its code from the city_code of the Hotel Agent's answer
HotelRecordFromAnswer(idea, r) ==
    [destination_code |-> IF r.raised THEN idea.destination_code ELSE r.value.city_code,
     hotels |-> IF r.raised THEN <<>> ELSE r.value.hotels]

\* the record hotel_agent_node appends for an idea, given what run_agent did
HotelRecord(idea, r) ==
    [destination_code |-> idea.destination_code,
     hotels |-> IF r.raised THEN <<>> ELSE r.value.hotels]

\* the loop walking the ideas from the last to the first
IdeaAtReversed(k) == flight_ideas[Len(flight_ideas) + 1 - k]

\* for idea in state.flight_ideas: the idea of the k-th iteration
IdeaAt(k) == flight_ideas[k]

\* number of the iteration the loop of hotel_agent_node is in or comes to next
Iteration == Len(hotel_results) + 1

OrchInit ==
    /\ node = "START" /\ at = "idle"
    /\ stage_log = <<"START">>
    /\ flight_ideas = <<>> /\ hotel_offers = <<>> /\ combined_suggestions = <<>>
    /\ hotel_results = <<>>
    /\ llm_output = NoOutput
    /\ flight_llm_calls = 0
    /\ hotel_calls = <<>> /\ hotel_outcomes = <<>>
    /\ error = "none"

\* the run moves along the graph's edge out of the current node
Advance ==
    /\ node' = GraphEdge(node)
    /\ at' = EntryAt(GraphEdge(node))
    /\ stage_log' = Append(stage_log, GraphEdge(node))

\* agent_orchestration: GraphState(user_prompt=prompt), graph.ainvoke enters the entry point
AgentOrchestration ==
    /\ node = "START"
    /\ Advance
    /\ UNCHANGED <<flight_ideas, hotel_offers, combined_suggestions, hotel_results, llm_output,
                   flight_llm_calls, hotel_calls, hotel_outcomes, error>>
    /\ UNCHANGED <<clientVars, toolVars, hotelToolVars, parseVars, senderVars, runnerVars, wikiVars>>

\* flight_agent_node up to the await inside FlightAgent.run_agent
FlightAgentCall ==
    /\ node = "FlightAgent" /\ at = "enter"
    /\ at' = "await"
    /\ flight_llm_calls' = flight_llm_calls + 1
    /\ UNCHANGED <<node, stage_log, flight_ideas, hotel_offers, combined_suggestions,
                   hotel_results, llm_output, hotel_calls, hotel_outcomes, error>>
    /\ UNCHANGED <<clientVars, toolVars, hotelToolVars, parseVars, senderVars, runnerVars, wikiVars>>

\* the LLM capability answers the Flight Agent
FlightLlmReturns ==
    /\ node = "FlightAgent" /\ at = "await"
    /\ \E out \in FlightLlmOutputs : llm_output' = out
    /\ at' = "parse"
    /\ UNCHANGED <<node, stage_log, flight_ideas, hotel_offers, combined_suggestions,
                   hotel_results, flight_llm_calls, hotel_calls, hotel_outcomes, error>>
    /\ UNCHANGED <<clientVars, toolVars, hotelToolVars, parseVars, senderVars, runnerVars, wikiVars>>

\* flight_agent_node logging the exception of run_agent and going on without ideas
FlightAgentNodeAbsorbs ==
    /\ node = "FlightAgent" /\ at = "parse"
    /\ LET r == FlightRunAgent(llm_output) IN
         /\ error' = r.exc
         /\ flight_ideas' = r.value.ideas
         /\ Advance
    /\ llm_output' = NoOutput
    /\ UNCHANGED <<hotel_offers, combined_suggestions, hotel_results, flight_llm_calls,
                   hotel_calls, hotel_outcomes>>
    /\ UNCHANGED <<clientVars, toolVars, hotelToolVars, parseVars, senderVars, runnerVars, wikiVars>>

\* the rest of FlightAgent.run_agent and of flight_agent_node
FlightAgentNode ==
    /\ node = "FlightAgent" /\ at = "parse"
    /\ LET r == FlightRunAgent(llm_output) IN
         IF r.raised
         THEN /\ node' = "RAISED" /\ at' = "idle"
              /\ error' = r.exc
              /\ UNCHANGED <<stage_log, flight_ideas>>
         ELSE /\ flight_ideas' = r.value.ideas
              /\ Advance
              /\ UNCHANGED error
    /\ llm_output' = NoOutput
    /\ UNCHANGED <<hotel_offers, combined_suggestions, hotel_results, flight_llm_calls,
                   hotel_calls, hotel_outcomes>>
    /\ UNCHANGED <<clientVars, toolVars, hotelToolVars, parseVars, senderVars, runnerVars, wikiVars>>

\* hotel_agent_node: one loop iteration up to the await inside HotelAgent.run_agent
HotelAgentCall ==
    /\ node = "HotelAgent" /\ at = "loop"
    /\ Iteration <= Len(flight_ideas)
    /\ hotel_calls' = Append(hotel_calls, HotelPrompt(IdeaAt(Iteration)))
    /\ at' = "await"
    /\ UNCHANGED <<node, stage_log, flight_ideas, hotel_offers, combined_suggestions,
                   hotel_results, llm_output, flight_llm_calls, hotel_outcomes, error>>
    /\ UNCHANGED <<clientVars, toolVars, hotelToolVars, parseVars, senderVars, runnerVars, wikiVars>>

\* the LLM capability answers the Hotel Agent; run_agent and the rest of the iteration
HotelAgentReturn ==
    /\ node = "HotelAgent" /\ at = "await"
    /\ \E out \in HotelLlmOutputs :
         LET r == HotelRunAgent(out) IN
           /\ hotel_results' = Append(hotel_results, HotelRecord(IdeaAt(Iteration), r))
           /\ hotel_outcomes' = Append(hotel_outcomes, IF r.raised THEN r.exc ELSE "ok")
    /\ at' = "loop"
    /\ UNCHANGED <<node, stage_log, flight_ideas, hotel_offers, combined_suggestions,
                   llm_output, flight_llm_calls, hotel_calls, error>>
    /\ UNCHANGED <<clientVars, toolVars, hotelToolVars, parseVars, senderVars, runnerVars, wikiVars>>

\* hotel_agent_node after its loop
HotelAgentNode ==
    /\ node = "HotelAgent" /\ at = "loop"
    /\ Iteration > Len(flight_ideas)
    /\ hotel_offers' = hotel_results
    /\ Advance
    /\ UNCHANGED <<flight_ideas, combined_suggestions, hotel_results, llm_output,
                   flight_llm_calls, hotel_calls, hotel_outcomes, error>>
    /\ UNCHANGED <<clientVars, toolVars, hotelToolVars, parseVars, senderVars, runnerVars, wikiVars>>

\* merge_output_node
MergeOutputNode ==
    /\ node = "MergeOutput" /\ at = "enter"
    /\ combined_suggestions' = MergeOutput(flight_ideas, hotel_offers)
    /\ Advance
    /\ UNCHANGED <<flight_ideas, hotel_offers, hotel_results, llm_output,
                   flight_llm_calls, hotel_calls, hotel_outcomes, error>>
    /\ UNCHANGED <<clientVars, toolVars, hotelToolVars, parseVars, senderVars, runnerVars, wikiVars>>

----------------------------------------------------------------------------
(* amadeus_client.py *)

\* settings.max_retries, the bound of stop_after_attempt
max_retries == 3

\* most search calls one client makes in the model
MaxCalls == 2

\* a credential as the constructor sees it: absent, the empty string, or a value
Creds == {None, "", "id"}

\* Python truthiness of an Optional[str]
Truthy(x) == x # None /\ x # ""

\* a or b
PyOr(a, b) == IF Truthy(a) THEN a ELSE b

\* self.client_id, self.client_secret as __init__ sets them
ClientId(c) == PyOr(c.arg_id, c.cfg_id)
ClientSecret(c) == PyOr(c.arg_secret, c.cfg_secret)

\* the check failing only when both credentials are absent
CredentialsMissingBoth(c) == ~Truthy(ClientId(c)) /\ ~Truthy(ClientSecret(c))

\* if not self.client_id or not self.client_secret
CredentialsMissing(c) == ~Truthy(ClientId(c)) \/ ~Truthy(ClientSecret(c))

\* What one HTTP attempt ends in: a 2xx answer; raise_for_status raising HTTPError on a 4xx
\* or a 5xx answer; requests raising another RequestException (connection, timeout); an
\* exception that is no RequestException (the answer lacks the expected shape)
AttemptOutcomes == {"ok", "HTTPError4xx", "HTTPError5xx", "ConnectionError", "OtherError"}

\* retry_if_exception_type((requests.RequestException, requests.HTTPError))
Retryable(outcome) == outcome \in {"HTTPError4xx", "HTTPError5xx", "ConnectionError"}

\* the stop condition reached one attempt late
AfterAttemptOneMore(n, outcome) ==
    IF outcome = "ok" THEN "return"
    ELSE IF ~Retryable(outcome) THEN "reraise"
    ELSE IF n > max_retries THEN "RetryError"
    ELSE "retry"

\* tenacity's decision after the n-th attempt of a call ended in outcome
AfterAttempt(n, outcome) ==
    IF outcome = "ok" THEN "return"
    ELSE IF ~Retryable(outcome) THEN "reraise"
    ELSE IF n >= max_retries THEN "RetryError"
    ELSE "retry"

SearchOps == {"search_flights", "search_hotels", "search_flight_inspiration"}

\* a search that fetches a new token when the provider answers with a client error
TokenRenewedOnClientError(token, outcome) ==
    IF outcome = "HTTPError4xx" THEN "token2" ELSE token

\* the search operations read self.access_token in _get_headers and assign nothing to it
TokenAfterAttempt(token, outcome) == token

ClientInit ==
    /\ cred \in [arg_id : Creds, arg_secret : Creds, cfg_id : Creds, cfg_secret : Creds]
    /\ client_state = "new" /\ ctor_error = "none"
    /\ access_token = None
    /\ auth_log = <<>>
    /\ op = "none" /\ call_state = "idle"
    /\ attempt_log = <<>> /\ call_error = "none"
    /\ calls_done = 0

\* AmadeusClient.__init__ up to the call of _authenticate
Construct ==
    /\ client_state = "new"
    /\ IF CredentialsMissing(cred)
       THEN client_state' = "ctor_failed" /\ ctor_error' = "ValueError"
       ELSE client_state' = "authenticating" /\ UNCHANGED ctor_error
    /\ access_token' = None
    /\ UNCHANGED <<cred, auth_log, op, call_state, attempt_log, call_error, calls_done>>
    /\ UNCHANGED <<orchVars, toolVars, hotelToolVars, parseVars, senderVars, runnerVars, wikiVars>>

\* one attempt of _authenticate under its retry decorator, and the end of __init__
Authenticate ==
    /\ client_state = "authenticating"
    /\ \E outcome \in AttemptOutcomes :
         LET n == Len(auth_log) + 1
             d == AfterAttempt(n, outcome) IN
           /\ auth_log' = Append(auth_log, outcome)
           /\ access_token' = IF outcome = "ok" THEN "token" ELSE access_token
           /\ client_state' = CASE d = "return" -> "ready"
                                [] d = "retry" -> "authenticating"
                                [] OTHER -> "ctor_failed"
           /\ ctor_error' = CASE d = "RetryError" -> "RetryError"
                              [] d = "reraise" -> outcome
                              [] OTHER -> ctor_error
    /\ UNCHANGED <<cred, op, call_state, attempt_log, call_error, calls_done>>
    /\ UNCHANGED <<orchVars, toolVars, hotelToolVars, parseVars, senderVars, runnerVars, wikiVars>>

\* a caller invokes search_flights, search_hotels or search_flight_inspiration
SearchCall ==
    /\ client_state = "ready"
    /\ call_state # "running"
    /\ calls_done < MaxCalls
    /\ \E o \in SearchOps : op' = o
    /\ call_state' = "running"
    /\ attempt_log' = <<>>
    /\ call_error' = "none"
    /\ UNCHANGED <<cred, client_state, ctor_error, access_token, auth_log, calls_done>>
    /\ UNCHANGED <<orchVars, toolVars, hotelToolVars, parseVars, senderVars, runnerVars, wikiVars>>

\* one attempt of the search operation under its retry decorator
SearchAttempt ==
    /\ call_state = "running"
    /\ \E outcome \in AttemptOutcomes :
         LET n == Len(attempt_log) + 1
             d == AfterAttempt(n, outcome) IN
           /\ attempt_log' = Append(attempt_log, outcome)
           /\ call_state' = CASE d = "return" -> "returned"
                              [] d = "retry" -> "running"
                              [] OTHER -> "raised"
           /\ call_error' = CASE d = "RetryError" -> "RetryError"
                              [] d = "reraise" -> outcome
                              [] OTHER -> "none"
           /\ calls_done' = IF d = "retry" THEN calls_done ELSE calls_done + 1
           /\ access_token' = TokenAfterAttempt(access_token, outcome)
    /\ UNCHANGED <<cred, client_state, ctor_error, auth_log, op>>
    /\ UNCHANGED <<orchVars, toolVars, hotelToolVars, parseVars, senderVars, runnerVars, wikiVars>>

----------------------------------------------------------------------------
(* flight_agent.py: FlightAgent._search_flight_inspiration *)

\* most records of the bundled sample or of a live answer
MaxRecords == 2
\* most invocations of the tool by the LLM capability in the model
MaxToolCalls == 2

Records == {"r1", "r2"}
RecordLists == SeqsUpTo(Records, MaxRecords)

\* what open + json.load of the sample file yield: a failure (file missing, not JSON), or
\* the document, with its "data" list or without the key
Fixtures == { [loaded |-> FALSE, has_data |-> FALSE, data |-> <<>>],
              [loaded |-> TRUE, has_data |-> FALSE, data |-> <<>>] }
            \cup { [loaded |-> TRUE, has_data |-> TRUE, data |-> l] : l \in RecordLists }

\* what self.amadeus.shopping.flight_destinations.get does: answers with records, raises the
\* SDK's ResponseError, or raises another exception
LiveOutcomes == { [kind |-> "ok", data |-> l] : l \in RecordLists }
                \cup { [kind |-> "ResponseError", data |-> <<>>], [kind |-> "OtherError", data |-> <<>>] }

NoLive == [kind |-> "none", data |-> <<>>]

\* except ResponseError: the failures of the live call the tool absorbs
FallsBack(live) == live.kind = "ResponseError"

\* the fallback handing back the sample without its last record
SampleDataTruncated(f) ==
    IF f.has_data /\ f.data # <<>> THEN SubSeq(f.data, 1, Len(f.data) - 1) ELSE <<>>

\* sample.get("data", [])
SampleData(f) == IF f.has_data THEN f.data ELSE <<>>

ToolInit ==
    /\ fixture \in Fixtures
    /\ tool_state = "idle"
    /\ live_outcome = NoLive
    /\ tool_result = <<>> /\ tool_error = "none"
    /\ tool_calls = 0

\* the LLM capability invokes the tool: the live call is made
SearchFlightInspiration ==
    /\ tool_state \in {"idle", "returned", "raised"}
    /\ tool_calls < MaxToolCalls
    /\ tool_calls' = tool_calls + 1
    /\ tool_state' = "live"
    /\ live_outcome' = NoLive
    /\ tool_result' = <<>> /\ tool_error' = "none"
    /\ UNCHANGED fixture
    /\ UNCHANGED <<orchVars, clientVars, hotelToolVars, parseVars, senderVars, runnerVars, wikiVars>>

\* the live call ends: its data are returned, its ResponseError is logged, or its exception
\* leaves the tool
LiveCallEnds ==
    /\ tool_state = "live"
    /\ \E live \in LiveOutcomes :
         /\ live_outcome' = live
         /\ IF live.kind = "ok"
            THEN tool_state' = "returned" /\ tool_result' = live.data /\ UNCHANGED tool_error
            ELSE IF FallsBack(live)
                 THEN tool_state' = "fallback" /\ UNCHANGED <<tool_result, tool_error>>
                 ELSE tool_state' = "raised" /\ tool_error' = live.kind /\ UNCHANGED tool_result
    /\ UNCHANGED <<fixture, tool_calls>>
    /\ UNCHANGED <<orchVars, clientVars, hotelToolVars, parseVars, senderVars, runnerVars, wikiVars>>

\* "Fallback to sample data"
FallbackToSample ==
    /\ tool_state = "fallback"
    /\ IF fixture.loaded
       THEN tool_state' = "returned" /\ tool_result' = SampleData(fixture) /\ UNCHANGED tool_error
       ELSE tool_state' = "raised" /\ tool_error' = "RuntimeError" /\ UNCHANGED tool_result
    /\ UNCHANGED <<fixture, live_outcome, tool_calls>>
    /\ UNCHANGED <<orchVars, clientVars, hotelToolVars, parseVars, senderVars, runnerVars, wikiVars>>

----------------------------------------------------------------------------
(* hotel_agent.py: HotelAgent._search_hotel_offers *)

\* MAX_RETRIES = 3
MAX_RETRIES == 3
\* most hotels the by-city lookup answers with in the model
MaxHotelIds == 2
\* most priced offers the offer search answers with in the model
MaxOffers == 4

\* what a provider call of the amadeus SDK does: answers with a list (of the given length),
\* raises the SDK's ResponseError, or raises another exception
ProviderOutcomes(most) ==
    { [kind |-> "ok", count |-> n] : n \in 0..most }
    \cup { [kind |-> "ResponseError", count |-> 0], [kind |-> "OtherError", count |-> 0] }

\* hotels.by_city.get, followed by the comprehension over hotels.data
HotelLookupOutcomes == ProviderOutcomes(MaxHotelIds)
\* shopping.hotel_offers_search.get
OfferOutcomes == ProviderOutcomes(MaxOffers)

NoCall == [kind |-> "none", count |-> 0]

\* values of hs_result: nothing returned yet, the sentinel None, result.data (by its length)
NoResult == [returned |-> FALSE, is_none |-> FALSE, offers |-> 0]
ReturnedNone == [returned |-> TRUE, is_none |-> TRUE, offers |-> 0]
ReturnedOffers(n) == [returned |-> TRUE, is_none |-> FALSE, offers |-> n]

\* arguments the LLM capability calls the tool with
HotelToolArgs == { [city_code |-> c, check_in |-> IsoDate(s[1]), check_out |-> IsoDate(s[2])] :
                   c \in Codes, s \in Stays }
NoArgs == [city_code |-> None, check_in |-> 0, check_out |-> 0]

\* the handler trapping nothing
TrappedNever(outcome) == FALSE

\* except ResponseError: the failures of a provider call the tool absorbs
Trapped(outcome) == outcome.kind = "ResponseError"

\* a handler that lets the loop go on to its next attempt after a trapped failure
LeavesLoopUnlessTrapped(outcome) == ~Trapped(outcome)

\* the body of the loop ends in return result.data, in return None, or in an exception that
\* nothing catches: no outcome of a provider call leads to a further iteration
LeavesLoop(outcome) == TRUE

\* return result.data
OffersHandedBack(outcome) == ReturnedOffers(outcome.count)

\* whether the for loop has a further iteration to go to after this outcome
LoopGoesOn(outcome) ==
    outcome.kind # "ok" /\ Trapped(outcome) /\ ~LeavesLoop(outcome) /\ hs_attempt < MAX_RETRIES

\* the loop variable after a provider call of the current iteration has ended
AttemptAfter(outcome) == IF LoopGoesOn(outcome) THEN hs_attempt + 1 ELSE hs_attempt

\* the except ResponseError branch: the failure is logged and None returned
TrappedFailure(outcome) ==
    /\ hs_state' = IF LoopGoesOn(outcome) THEN "by_city" ELSE "returned"
    /\ hs_result' = IF LoopGoesOn(outcome) THEN hs_result ELSE ReturnedNone
    /\ UNCHANGED hs_error

HotelToolInit ==
    /\ hs_state = "idle"
    /\ hs_args = NoArgs
    /\ hs_attempt = 0
    /\ hs_hotels = NoCall /\ hs_offers = NoCall
    /\ hs_requests = <<>>
    /\ hs_result = NoResult /\ hs_error = "none"
    /\ hs_calls = 0

\* the LLM capability invokes the tool: the loop over range(1, MAX_RETRIES + 1) is entered
SearchHotelOffers ==
    /\ hs_state \in {"idle", "returned", "raised"}
    /\ hs_calls < MaxToolCalls
    /\ hs_calls' = hs_calls + 1
    /\ \E args \in HotelToolArgs : hs_args' = args
    /\ 1 \in 1..MAX_RETRIES
    /\ hs_attempt' = 1
    /\ hs_state' = "by_city"
    /\ hs_hotels' = NoCall /\ hs_offers' = NoCall
    /\ hs_requests' = <<>>
    /\ hs_result' = NoResult
    /\ hs_error' = "none"
    /\ UNCHANGED <<orchVars, clientVars, toolVars, parseVars, senderVars, runnerVars, wikiVars>>

\* the hotel-id lookup by city ends: the offer search follows, a ResponseError is logged and
\* None returned, or another exception leaves the tool
HotelsByCity ==
    /\ hs_state = "by_city"
    /\ \E hotels \in HotelLookupOutcomes :
         /\ hs_hotels' = hotels
         /\ hs_requests' = Append(hs_requests, "by_city")
         /\ hs_attempt' = AttemptAfter(hotels)
         /\ IF hotels.kind = "ok"
            THEN hs_state' = "offers_search" /\ UNCHANGED <<hs_result, hs_error>>
            ELSE IF Trapped(hotels)
                 THEN TrappedFailure(hotels)
                 ELSE hs_state' = "raised" /\ hs_error' = hotels.kind /\ UNCHANGED hs_result
    /\ UNCHANGED <<hs_args, hs_offers, hs_calls>>
    /\ UNCHANGED <<orchVars, clientVars, toolVars, parseVars, senderVars, runnerVars, wikiVars>>

\* the offer-price lookup ends: its data are returned, a ResponseError is logged and None
\* returned, or another exception leaves the tool
HotelOffersSearch ==
    /\ hs_state = "offers_search"
    /\ \E result \in OfferOutcomes :
         /\ hs_offers' = result
         /\ hs_requests' = Append(hs_requests, "offers_search")
         /\ hs_attempt' = AttemptAfter(result)
         /\ IF result.kind = "ok"
            THEN hs_state' = "returned" /\ hs_result' = OffersHandedBack(result) /\ UNCHANGED hs_error
            ELSE IF Trapped(result)
                 THEN TrappedFailure(result)
                 ELSE hs_state' = "raised" /\ hs_error' = result.kind /\ UNCHANGED hs_result
    /\ UNCHANGED <<hs_args, hs_hotels, hs_calls>>
    /\ UNCHANGED <<orchVars, clientVars, toolVars, parseVars, senderVars, runnerVars, wikiVars>>

----------------------------------------------------------------------------
(* flight_agent.py, hotel_agent.py: run_agent on one answer of the LLM capability *)

\* most whitespace pieces at each place of an answer where whitespace may stand
MaxPad == 1

Pad(n) == [i \in 1..n |-> "w"]

\* how the LLM lays out its JSON document: bare, in a ```json fence, in a ``` fence
Wrappings == {"bare", "json_fence", "plain_fence"}

\* whitespace before the answer, after the opening fence, before the closing fence, after
\* the answer
Paddings == [lead : 0..MaxPad, open : 0..MaxPad, close : 0..MaxPad, trail : 0..MaxPad]

\* str(result.output) for a document laid out in the given way
AnswerText(doc, wrapping, pad) ==
    IF wrapping = "bare"
    THEN Pad(pad.lead) \o <<doc>> \o Pad(pad.trail)
    ELSE Pad(pad.lead)
         \o (IF wrapping = "json_fence" THEN <<"F", "j">> ELSE <<"F">>)
         \o Pad(pad.open) \o <<doc>> \o Pad(pad.close)
         \o <<"F">> \o Pad(pad.trail)

\* textual answers: a conforming document stands for the JSON text of its payload
LaidOutAnswers(payloads, none) ==
    { [kind |-> "str", text |-> AnswerText("V", w, p), payload |-> pl] :
          w \in Wrappings, p \in Paddings, pl \in payloads }
    \cup { [kind |-> "str", text |-> AnswerText(d, w, p), payload |-> none] :
          d \in {"N", "g"}, w \in Wrappings, p \in Paddings }

\* what agent.run hands to run_agent, per agent
AgentAnswers(agent) ==
    IF agent = "flight"
    THEN FlightLlmOutputs \cup LaidOutAnswers(FlightAgentOutputs, NoFlightOutput)
    ELSE HotelLlmOutputs \cup LaidOutAnswers(HotelSearchResults, NoHotelOutput)

\* FlightAgent.run_agent or HotelAgent.run_agent
RunAgentOf(agent, out) == IF agent = "flight" THEN FlightRunAgent(out) ELSE HotelRunAgent(out)

ParseInit ==
    /\ pa_state = "idle"
    /\ pa_agent = "flight"
    /\ pa_output = NoOutput
    /\ pa_stripped = <<>>
    /\ pa_result = Returned(NoFlightOutput)

\* result = await self.agent.run(prompt)
LlmAnswers ==
    /\ pa_state = "idle"
    /\ \E agent \in {"flight", "hotel"} :
         /\ pa_agent' = agent
         /\ \E out \in AgentAnswers(agent) : pa_output' = out
    /\ pa_state' = "answered"
    /\ UNCHANGED <<pa_stripped, pa_result>>
    /\ UNCHANGED <<orchVars, clientVars, toolVars, hotelToolVars, senderVars, runnerVars, wikiVars>>

\* the rest of run_agent: the output object is returned, or its text is stripped of
\* whitespace and fence and validated
RunAgentParses ==
    /\ pa_state = "answered"
    /\ pa_stripped' = IF pa_output.kind = "str" THEN StripFence(Strip(pa_output.text)) ELSE <<>>
    /\ pa_result' = RunAgentOf(pa_agent, pa_output)
    /\ pa_state' = "done"
    /\ UNCHANGED <<pa_agent, pa_output>>
    /\ UNCHANGED <<orchVars, clientVars, toolVars, hotelToolVars, senderVars, runnerVars, wikiVars>>

----------------------------------------------------------------------------
(* telegram_sender.py: main, attach_city_images, build_photo_messages, send_to_telegram *)

\* most ideas of an agent answer in the model
MaxMessages == 2

\* keys of a language's entry in TRANSLATIONS
TranslationKeys == {"title", "travel_details", "from", "to", "dates", "flight_price", "flight",
                    "book_flight", "recommended_hotel", "rating", "price", "book_hotel"}

\* what search_city_image returns: None, or the link the photo service gave, which is a
\* direct image file or something else
ImageUrls == {None, "https://photos/city.jpeg", "https://photos/city.pdf"}

\* a TravelIdea as the sender reads it: travel_summary.flight_number, travel_summary.hotel
\* and image_url, which is None until attach_city_images has run
SenderIdeas == [flight_number : {None, "FN123"}, hotel : {None, "HotelInfo"}, image_url : {None}]

\* what AiAgent() and agent.run_agent do: raise, or return ideas. image_fields tells whether
\* the returned objects carry the attributes destination_eng and image_url that
\* attach_city_images reads and assigns (the TravelSummary and TravelIdea of ai_agent.py
\* declare neither)
SenderAnswers ==
    { [kind |-> "raise", image_fields |-> FALSE, ideas |-> <<>>] }
    \cup { [kind |-> "ideas", image_fields |-> f, ideas |-> l] :
             f \in BOOLEAN, l \in SeqsUpTo(SenderIdeas, MaxMessages) }

NoAnswer == [kind |-> "none", image_fields |-> FALSE, ideas |-> <<>>]

Running == [exited |-> FALSE, status |-> 0]
Exited(n) == [exited |-> TRUE, status |-> n]

\* main leaving with status 0 whatever happened
ExitStatusAlwaysZero(raised) == Exited(0)

\* main: except Exception -> sys.exit(1); a normal return ends the process with status 0
ExitStatus(raised) == IF raised THEN Exited(1) ELSE Exited(0)

\* format_idea_caption: the parts of the caption, by the translated label or the field each
\* one shows
FormatIdeaCaption(idea) ==
    <<"header", "motivation", "destination_description",
      "travel_details", "from", "to", "dates", "flight_price">>
    \o (IF Truthy(idea.flight_number) THEN <<"flight">> ELSE <<>>)
    \o <<"book_flight">>
    \o (IF Truthy(idea.hotel) THEN <<"recommended_hotel", "hotel_name", "rating", "price">> ELSE <<>>)

\* build_photo_messages
BuildPhotoMessages(ideas) ==
    [i \in 1..Len(ideas) |-> [photo_url |-> ideas[i].image_url,
                              caption |-> FormatIdeaCaption(ideas[i])]]

\* send_to_telegram: if photo_url: send_photo, else: send_message
DeliveryOp(photo_url) == IF Truthy(photo_url) THEN "send_photo" ELSE "send_message"

\* the loop giving up at the first failed delivery
NextPositionAbortsOnFailure(k, outcome) ==
    IF outcome = "raise" THEN Len(tg_messages) + 1 ELSE k + 1

\* send_to_telegram's loop: after "Idea sent successfully" and after except ... continue alike
\* the next pair is taken
NextPosition(k, outcome) == k + 1

\* an item of idea_messages is a (photo_url, caption) pair
IsPair(item) == DOMAIN item = {"photo_url", "caption"}

\* idea_messages a caller other than main may pass: pairs with or without a photo, and items
\* that do not unpack into two names
PassedMessages ==
    { [photo_url |-> "https://photos/city.jpeg", caption |-> <<"header">>],
      [photo_url |-> None, caption |-> <<"header">>],
      [item |-> "not a pair"] }

PassedLists == UNION { [1..n -> PassedMessages] : n \in 0..MaxMessages }

\* a function that leaves the session open
SessionLeftOpen(closes) == closes

\* finally: await bot.session.close()
SessionClose(closes) == closes + 1

\* what the end of send_to_telegram does to the exit status: main exits 1 on an exception
\* and returns otherwise; a direct call has no exit status
ExitAfter(raised) == IF tg_entry = "main" THEN ExitStatus(raised) ELSE tg_exit

SenderInit ==
    /\ tg_entry = "main"
    /\ tg_cfg \in [bot_token : {None, "token"}, channel_id : {None, "@channel"}]
    /\ tg_pc = "start"
    /\ tg_answer = NoAnswer
    /\ tg_ideas = <<>>
    /\ tg_messages = <<>>
    /\ tg_pos = 0
    /\ tg_calls = <<>>
    /\ tg_session = "none"
    /\ tg_closes = 0
    /\ tg_error = "none"
    /\ tg_exit = Running

\* a call of send_to_telegram by itself, with any settings and any list
SendToTelegramInit ==
    /\ tg_entry = "send_to_telegram"
    /\ tg_cfg \in [bot_token : {None, "token"}, channel_id : {None, "@channel"}]
    /\ tg_pc = "call"
    /\ tg_answer = NoAnswer
    /\ tg_ideas = <<>>
    /\ tg_messages \in PassedLists
    /\ tg_pos = 0
    /\ tg_calls = <<>>
    /\ tg_session = "none"
    /\ tg_closes = 0
    /\ tg_error = "none"
    /\ tg_exit = Running

\* main up to "Validate required settings"
SenderMain ==
    /\ tg_pc = "start"
    /\ IF ~Truthy(tg_cfg.bot_token) \/ ~Truthy(tg_cfg.channel_id)
       THEN tg_pc' = "done" /\ tg_exit' = Exited(1)
       ELSE tg_pc' = "agent" /\ UNCHANGED tg_exit
    /\ UNCHANGED <<tg_entry, tg_cfg, tg_answer, tg_ideas, tg_messages, tg_pos, tg_calls,
                   tg_session, tg_closes, tg_error>>
    /\ UNCHANGED <<orchVars, clientVars, toolVars, hotelToolVars, parseVars, runnerVars, wikiVars>>

\* agent = AiAgent(); ideas = await agent.run_agent(prompt)
SenderAgentRuns ==
    /\ tg_pc = "agent"
    /\ \E answer \in SenderAnswers :
         /\ tg_answer' = answer
         /\ IF answer.kind = "raise"
            THEN tg_pc' = "done" /\ tg_exit' = ExitStatus(TRUE) /\ UNCHANGED tg_ideas
            ELSE tg_pc' = "enrich" /\ tg_ideas' = answer.ideas /\ UNCHANGED tg_exit
    /\ UNCHANGED <<tg_entry, tg_cfg, tg_messages, tg_pos, tg_calls, tg_session, tg_closes,
                   tg_error>>
    /\ UNCHANGED <<orchVars, clientVars, toolVars, hotelToolVars, parseVars, runnerVars, wikiVars>>

\* attach_city_images(ideas): each idea gets what search_city_image returns for it; reading
\* destination_eng of an object without that attribute raises AttributeError
AttachCityImages ==
    /\ tg_pc = "enrich"
    /\ IF tg_ideas # <<>> /\ ~tg_answer.image_fields
       THEN tg_pc' = "done" /\ tg_exit' = ExitStatus(TRUE) /\ UNCHANGED tg_ideas
       ELSE /\ \E images \in [1..Len(tg_ideas) -> ImageUrls] :
                 tg_ideas' = [i \in 1..Len(tg_ideas) |-> [tg_ideas[i] EXCEPT !.image_url = images[i]]]
            /\ tg_pc' = "build"
            /\ UNCHANGED tg_exit
    /\ UNCHANGED <<tg_entry, tg_cfg, tg_answer, tg_messages, tg_pos, tg_calls, tg_session,
                   tg_closes, tg_error>>
    /\ UNCHANGED <<orchVars, clientVars, toolVars, hotelToolVars, parseVars, runnerVars, wikiVars>>

\* idea_messages = build_photo_messages(ideas, language); main then calls send_to_telegram
BuildMessages ==
    /\ tg_pc = "build"
    /\ tg_messages' = BuildPhotoMessages(tg_ideas)
    /\ tg_pc' = "call"
    /\ UNCHANGED <<tg_entry, tg_cfg, tg_answer, tg_ideas, tg_pos, tg_calls, tg_session,
                   tg_closes, tg_error, tg_exit>>
    /\ UNCHANGED <<orchVars, clientVars, toolVars, hotelToolVars, parseVars, runnerVars, wikiVars>>

\* send_to_telegram up to its loop: the settings check, which raises ValueError, and
\* bot = Bot(token=bot_token), which returns a bot with a session or raises on a token it
\* does not accept
OpenBot ==
    /\ tg_pc = "call"
    /\ IF ~Truthy(tg_cfg.bot_token) \/ ~Truthy(tg_cfg.channel_id)
       THEN /\ tg_error' = "ValueError"
            /\ tg_pc' = "done"
            /\ tg_exit' = ExitAfter(TRUE)
            /\ UNCHANGED <<tg_pos, tg_session>>
       ELSE \E created \in BOOLEAN :
              IF created
              THEN /\ tg_session' = "open"
                   /\ tg_pos' = 1
                   /\ tg_pc' = "send"
                   /\ UNCHANGED <<tg_error, tg_exit>>
              ELSE /\ tg_error' = "TokenValidationError"
                   /\ tg_pc' = "done"
                   /\ tg_exit' = ExitAfter(TRUE)
                   /\ UNCHANGED <<tg_pos, tg_session>>
    /\ UNCHANGED <<tg_entry, tg_cfg, tg_answer, tg_ideas, tg_messages, tg_calls, tg_closes>>
    /\ UNCHANGED <<orchVars, clientVars, toolVars, hotelToolVars, parseVars, runnerVars, wikiVars>>

\* one iteration of send_to_telegram's loop: the delivery call succeeds, or raises and is
\* logged; an item that does not unpack raises in the outer try, which logs, re-raises and
\* closes the session on the way out
SendIdea ==
    /\ tg_pc = "send"
    /\ tg_pos <= Len(tg_messages)
    /\ IF IsPair(tg_messages[tg_pos])
       THEN /\ \E outcome \in {"ok", "raise"} :
                 /\ tg_calls' = Append(tg_calls, [op |-> DeliveryOp(tg_messages[tg_pos].photo_url),
                                                  msg |-> tg_pos,
                                                  text |-> tg_messages[tg_pos].caption,
                                                  outcome |-> outcome])
                 /\ tg_pos' = NextPosition(tg_pos, outcome)
            /\ UNCHANGED <<tg_pc, tg_session, tg_closes, tg_error, tg_exit>>
       ELSE /\ tg_error' = "UnpackError"
            /\ tg_session' = "closed"
            /\ tg_closes' = SessionClose(tg_closes)
            /\ tg_pc' = "done"
            /\ tg_exit' = ExitAfter(TRUE)
            /\ UNCHANGED <<tg_calls, tg_pos>>
    /\ UNCHANGED <<tg_entry, tg_cfg, tg_answer, tg_ideas, tg_messages>>
    /\ UNCHANGED <<orchVars, clientVars, toolVars, hotelToolVars, parseVars, runnerVars, wikiVars>>

\* the loop is over: finally bot.session.close(), main prints its success message and returns
SendFinished ==
    /\ tg_pc = "send"
    /\ tg_pos > Len(tg_messages)
    /\ tg_session' = "closed"
    /\ tg_closes' = SessionClose(tg_closes)
    /\ tg_pc' = "done"
    /\ tg_exit' = ExitAfter(FALSE)
    /\ UNCHANGED <<tg_entry, tg_cfg, tg_answer, tg_ideas, tg_messages, tg_pos, tg_calls,
                   tg_error>>
    /\ UNCHANGED <<orchVars, clientVars, toolVars, hotelToolVars, parseVars, runnerVars, wikiVars>>

----------------------------------------------------------------------------
(* run_multi_channel.py: load_config_from_file, load_config_from_env, run_channel, main *)

\* most channel configurations of a configuration document in the model
MaxChannels == 2

\* a channel configuration: a JSON object with the channel's settings
ChannelConfigs == { [telegram_channel_id |-> c] : c \in {"@one", "@two"} }
ChannelLists == SeqsUpTo(ChannelConfigs, MaxChannels)

\* content of the configuration file or of CHANNELS_CONFIG: an array of configurations, an
\* object with a 'channels' key, an object with one other key, the empty object, a number,
\* or text that is not JSON
JsonDocs ==
    { [shape |-> s, channels |-> l] : s \in {"array", "channels_object"}, l \in ChannelLists }
    \cup { [shape |-> s, channels |-> <<>>] : s \in {"other_object", "empty_object", "number", "invalid"} }

\* the configuration source: whether the file exists, or the variable is set and not empty,
\* and what it holds
RunnerInputs == [present : BOOLEAN, doc : JsonDocs]

\* --config and --from-env as given, --parallel, and whether the sender script exists
RunnerArgs == [source : {"none", "file", "env", "both"}, parallel : BOOLEAN, script_exists : BOOLEAN]

\* what a load function hands back: an exception, or a value of some kind with its len();
\* items are the elements when the value is a list
LoadRaised(exc) == [raised |-> TRUE, exc |-> exc, kind |-> "none", items |-> <<>>, size |-> 0]
Loaded(kind, items, size) == [raised |-> FALSE, exc |-> "none", kind |-> kind, items |-> items, size |-> size]
NotLoaded == Loaded("none", <<>>, 0)

\* load_config_from_file
LoadConfigFromFile(input) ==
    IF ~input.present THEN LoadRaised("FileNotFoundError")
    ELSE IF input.doc.shape = "invalid" THEN LoadRaised("JSONDecodeError")
    ELSE IF input.doc.shape \in {"array", "channels_object"}
         THEN Loaded("list", input.doc.channels, Len(input.doc.channels))
         ELSE LoadRaised("ValueError")

\* load_config_from_env: json.loads(channels_config), returned as it is
LoadConfigFromEnv(input) ==
    IF ~input.present THEN LoadRaised("ValueError")
    ELSE IF input.doc.shape = "invalid" THEN LoadRaised("JSONDecodeError")
    ELSE IF input.doc.shape = "array"
         THEN Loaded("list", input.doc.channels, Len(input.doc.channels))
    ELSE IF input.doc.shape \in {"channels_object", "other_object"} THEN Loaded("dict", <<>>, 1)
    ELSE IF input.doc.shape = "empty_object" THEN Loaded("dict", <<>>, 0)
    ELSE Loaded("number", <<>>, 0)

\* the gate between the channels of a run: in sequential mode run_channel is awaited before
\* the next one starts, asyncio.gather starts them all
MayStart(i) == rc_args.parallel \/ \A j \in 1..(i - 1) : rc_chan[j] \in {"ok", "failed"}

\* results listed in the order in which the channels finished
GatherInCompletionOrder(chan) == [k \in 1..Len(chan) |-> chan[rc_finished[k]]]

\* results = await asyncio.gather(*tasks): the values of the awaitables, in the order of the
\* task list
Gather(chan) == chan

\* results.append(result) of the sequential loop; in parallel mode the list is made by
\* gather once every channel has finished
ResultsWith(result) == IF rc_args.parallel THEN rc_results ELSE Append(rc_results, result)

\* a summary that reports success whatever the results
RunnerExitAlwaysZero(chan) == Exited(0)

\* main's summary: sys.exit(1) if failed > 0, a normal return otherwise
RunnerExit(chan) ==
    IF \E i \in 1..Len(chan) : chan[i] = "failed" THEN Exited(1) ELSE Exited(0)

RunnerInit ==
    /\ rc_args \in RunnerArgs
    /\ rc_input \in RunnerInputs
    /\ rc_pc = "start"
    /\ rc_load = NotLoaded
    /\ rc_chan = <<>>
    /\ rc_launches = <<>>
    /\ rc_finished = <<>>
    /\ rc_results = <<>>
    /\ rc_exit = Running

\* main up to "Process channels": the arguments are validated, the configuration is loaded
\* and checked, the sender script is looked for
RunnerMain ==
    /\ rc_pc = "start"
    /\ IF rc_args.source \in {"none", "both"}
       THEN /\ rc_pc' = "done" /\ rc_exit' = Exited(2)
            /\ UNCHANGED <<rc_load, rc_chan>>
       ELSE LET load == IF rc_args.source = "file" THEN LoadConfigFromFile(rc_input)
                        ELSE LoadConfigFromEnv(rc_input)
            IN  /\ rc_load' = load
                /\ IF load.raised \/ load.size = 0 \/ load.kind = "number" \/ ~rc_args.script_exists
                   THEN rc_pc' = "done" /\ rc_exit' = Exited(1) /\ UNCHANGED rc_chan
                   ELSE /\ rc_pc' = "running"
                        /\ rc_chan' = [i \in 1..load.size |-> "pending"]
                        /\ UNCHANGED rc_exit
    /\ UNCHANGED <<rc_args, rc_input, rc_launches, rc_finished, rc_results>>
    /\ UNCHANGED <<orchVars, clientVars, toolVars, hotelToolVars, parseVars, senderVars, wikiVars>>

\* run_channel for the next configuration of the list, up to the end of
\* create_subprocess_exec: the pipeline execution is started, or the launch raises and the
\* channel counts as failed
LaunchChannel ==
    /\ rc_pc = "running"
    /\ rc_load.kind = "list"
    /\ LET i == Len(rc_launches) + 1
       IN  /\ i <= Len(rc_chan)
           /\ MayStart(i)
           /\ rc_launches' = Append(rc_launches, i)
           /\ \E started \in BOOLEAN :
                IF started
                THEN /\ rc_chan' = [rc_chan EXCEPT ![i] = "running"]
                     /\ UNCHANGED <<rc_finished, rc_results>>
                ELSE /\ rc_chan' = [rc_chan EXCEPT ![i] = "failed"]
                     /\ rc_finished' = Append(rc_finished, i)
                     /\ rc_results' = ResultsWith("failed")
    /\ UNCHANGED <<rc_args, rc_input, rc_pc, rc_load, rc_exit>>
    /\ UNCHANGED <<orchVars, clientVars, toolVars, hotelToolVars, parseVars, senderVars, wikiVars>>

\* process.communicate() returns: run_channel answers True for returncode 0, False otherwise
ChannelExits ==
    /\ rc_pc = "running"
    /\ \E i \in 1..Len(rc_chan) :
         /\ rc_chan[i] = "running"
         /\ \E result \in {"ok", "failed"} :
              /\ rc_chan' = [rc_chan EXCEPT ![i] = result]
              /\ rc_results' = ResultsWith(result)
         /\ rc_finished' = Append(rc_finished, i)
    /\ UNCHANGED <<rc_args, rc_input, rc_pc, rc_load, rc_launches, rc_exit>>
    /\ UNCHANGED <<orchVars, clientVars, toolVars, hotelToolVars, parseVars, senderVars, wikiVars>>

\* run_channel handed a key of a loaded object: config.get raises AttributeError, which
\* leaves main
RunChannelOnKey ==
    /\ rc_pc = "running"
    /\ rc_load.kind = "dict"
    /\ rc_pc' = "done"
    /\ rc_exit' = Exited(1)
    /\ UNCHANGED <<rc_args, rc_input, rc_load, rc_chan, rc_launches, rc_finished, rc_results>>
    /\ UNCHANGED <<orchVars, clientVars, toolVars, hotelToolVars, parseVars, senderVars, wikiVars>>

\* every run_channel has returned: the summary is printed and the exit status decided
RunnerSummary ==
    /\ rc_pc = "running"
    /\ rc_load.kind = "list"
    /\ \A i \in 1..Len(rc_chan) : rc_chan[i] \in {"ok", "failed"}
    /\ rc_pc' = "done"
    /\ rc_results' = IF rc_args.parallel THEN Gather(rc_chan) ELSE rc_results
    /\ rc_exit' = RunnerExit(rc_results')
    /\ UNCHANGED <<rc_args, rc_input, rc_load, rc_chan, rc_launches, rc_finished>>
    /\ UNCHANGED <<orchVars, clientVars, toolVars, hotelToolVars, parseVars, senderVars, wikiVars>>

----------------------------------------------------------------------------
(* shared_tools.py: get_wikipedia_image *)

\* most pages in the "pages" object of a response in the model
MaxPages == 2

Destinations == {"Paris", "Rome"}

\* a page of the response: without the "thumbnail" key, with a thumbnail that has a
\* "source", or with a thumbnail object that has none
WikiPages ==
    { [thumbnail |-> FALSE, has_source |-> FALSE, source |-> None],
      [thumbnail |-> TRUE, has_source |-> FALSE, source |-> None] }
    \cup { [thumbnail |-> TRUE, has_source |-> TRUE, source |-> u] :
             u \in {"https://upload/a.jpg", "https://upload/b.jpg"} }

WikiPageLists == UNION { [1..n -> WikiPages] : n \in 0..MaxPages }

\* what requests.get(api_url, params=params) and the reading of the response come to: an
\* exception of requests for a failed connection or a timeout, an error status, a body that
\* is not JSON, or a JSON document: an array, or an object whose "query" is absent, null or
\* an object with or without "pages"
WikiResponses ==
    { [kind |-> k, query |-> "absent", has_pages |-> FALSE, pages |-> <<>>] :
         k \in {"ConnectionError", "Timeout", "HTTPError", "NotJSON", "array"} }
    \cup { [kind |-> "object", query |-> q, has_pages |-> FALSE, pages |-> <<>>] :
             q \in {"absent", "null", "object"} }
    \cup { [kind |-> "object", query |-> "object", has_pages |-> TRUE, pages |-> ps] :
             ps \in WikiPageLists }

NoResponse == [kind |-> "none", query |-> "absent", has_pages |-> FALSE, pages |-> <<>>]

WikiNoResult == [kind |-> "none", value |-> None]
WikiReturned(url) == [kind |-> "returned", value |-> url]
WikiRaised(exception) == [kind |-> "raised", value |-> exception]

\* the exceptions of requests, all subclasses of requests.RequestException: the failures of
\* requests.get, the HTTPError of raise_for_status and the JSONDecodeError of response.json()
IsRequestException(kind) == kind \in {"ConnectionError", "Timeout", "HTTPError", "NotJSON"}

\* for page in pages.values(): if "thumbnail" in page: return page["thumbnail"]["source"]
RECURSIVE FirstThumbnail(_)
FirstThumbnail(pages) ==
    IF pages = <<>>
    THEN WikiReturned(None)
    ELSE IF Head(pages).thumbnail
         THEN IF Head(pages).has_source
              THEN WikiReturned(Head(pages).source)
              ELSE WikiRaised("KeyError")
         ELSE FirstThumbnail(Tail(pages))

\* the body of get_wikipedia_image on a response: except requests.RequestException logs and
\* falls through to return None; .get on what is not a dict raises AttributeError
WikipediaImage(response) ==
    IF IsRequestException(response.kind)
    THEN WikiReturned(None)
    ELSE IF response.kind = "array"
    THEN WikiRaised("AttributeError")
    ELSE IF response.query = "absent"
    THEN WikiReturned(None)
    ELSE IF response.query = "null"
    THEN WikiRaised("AttributeError")
    ELSE IF ~response.has_pages
    THEN WikiReturned(None)
    ELSE FirstThumbnail(response.pages)

WikiInit ==
    /\ wk_state = "idle"
    /\ wk_destination = None
    /\ wk_response = NoResponse
    /\ wk_result = WikiNoResult
    /\ wk_calls = 0

\* the agent calls get_wikipedia_image(destination)
GetWikipediaImage ==
    /\ wk_state # "requesting"
    /\ wk_calls < MaxToolCalls
    /\ \E destination \in Destinations : wk_destination' = destination
    /\ wk_state' = "requesting"
    /\ wk_response' = NoResponse
    /\ wk_result' = WikiNoResult
    /\ wk_calls' = wk_calls + 1
    /\ UNCHANGED <<orchVars, clientVars, toolVars, hotelToolVars, parseVars, senderVars, runnerVars>>

\* the request ends and the function returns or raises
WikiLookupEnds ==
    /\ wk_state = "requesting"
    /\ \E response \in WikiResponses :
         /\ wk_response' = response
         /\ wk_result' = WikipediaImage(response)
         /\ wk_state' = WikipediaImage(response).kind
    /\ UNCHANGED <<wk_destination, wk_calls>>
    /\ UNCHANGED <<orchVars, clientVars, toolVars, hotelToolVars, parseVars, senderVars, runnerVars>>

----------------------------------------------------------------------------
(* Idle values of the components a specification does not exercise *)

OrchIdle == OrchInit

ClientIdle ==
    /\ cred = [arg_id |-> None, arg_secret |-> None, cfg_id |-> None, cfg_secret |-> None]
    /\ client_state = "new" /\ ctor_error = "none"
    /\ access_token = None
    /\ auth_log = <<>>
    /\ op = "none" /\ call_state = "idle"
    /\ attempt_log = <<>> /\ call_error = "none"
    /\ calls_done = 0

ToolIdle ==
    /\ fixture = [loaded |-> FALSE, has_data |-> FALSE, data |-> <<>>]
    /\ tool_state = "idle"
    /\ live_outcome = NoLive
    /\ tool_result = <<>> /\ tool_error = "none"
    /\ tool_calls = 0

HotelToolIdle == HotelToolInit

ParseIdle == ParseInit

SenderIdle ==
    /\ tg_entry = "main"
    /\ tg_cfg = [bot_token |-> None, channel_id |-> None]
    /\ tg_pc = "start"
    /\ tg_answer = NoAnswer
    /\ tg_ideas = <<>>
    /\ tg_messages = <<>>
    /\ tg_pos = 0
    /\ tg_calls = <<>>
    /\ tg_session = "none"
    /\ tg_closes = 0
    /\ tg_error = "none"
    /\ tg_exit = Running

RunnerIdle ==
    /\ rc_args = [source |-> "none", parallel |-> FALSE, script_exists |-> FALSE]
    /\ rc_input = [present |-> FALSE, doc |-> [shape |-> "invalid", channels |-> <<>>]]
    /\ rc_pc = "start"
    /\ rc_load = NotLoaded
    /\ rc_chan = <<>>
    /\ rc_launches = <<>>
    /\ rc_finished = <<>>
    /\ rc_results = <<>>
    /\ rc_exit = Running

----------------------------------------------------------------------------
(* Specification of one orchestration run *)

Init == OrchInit /\ ClientIdle /\ ToolIdle /\ HotelToolIdle /\ ParseIdle /\ SenderIdle /\ RunnerIdle /\ WikiInit

Next ==
    \/ AgentOrchestration
    \/ FlightAgentCall
    \/ FlightLlmReturns
    \/ FlightAgentNode
    \/ HotelAgentCall
    \/ HotelAgentReturn
    \/ HotelAgentNode
    \/ MergeOutputNode

Spec == Init /\ [][Next]_vars

----------------------------------------------------------------------------
(* Specification of an AmadeusClient: construction, then search calls *)

InitClient == ClientInit /\ OrchIdle /\ ToolIdle /\ HotelToolIdle /\ ParseIdle /\ SenderIdle /\ RunnerIdle /\ WikiInit

NextClient ==
    \/ Construct
    \/ Authenticate
    \/ SearchCall
    \/ SearchAttempt

SpecClient == InitClient /\ [][NextClient]_vars

----------------------------------------------------------------------------
(* Specification of the Flight Agent's inspiration tool *)

InitTool == ToolInit /\ OrchIdle /\ ClientIdle /\ HotelToolIdle /\ ParseIdle /\ SenderIdle /\ RunnerIdle /\ WikiInit

NextTool ==
    \/ SearchFlightInspiration
    \/ LiveCallEnds
    \/ FallbackToSample

SpecTool == InitTool /\ [][NextTool]_vars

----------------------------------------------------------------------------
(* Specification of the Hotel Agent's search tool *)

InitHotelTool ==
    /\ HotelToolInit
    /\ OrchIdle /\ ClientIdle /\ ToolIdle /\ ParseIdle /\ SenderIdle /\ RunnerIdle /\ WikiInit

NextHotelTool ==
    \/ SearchHotelOffers
    \/ HotelsByCity
    \/ HotelOffersSearch

SpecHotelTool == InitHotelTool /\ [][NextHotelTool]_vars

----------------------------------------------------------------------------
(* Specification of run_agent handling one answer *)

InitParse ==
    /\ ParseInit
    /\ OrchIdle /\ ClientIdle /\ ToolIdle /\ HotelToolIdle /\ SenderIdle /\ RunnerIdle /\ WikiInit

NextParse ==
    \/ LlmAnswers
    \/ RunAgentParses

SpecParse == InitParse /\ [][NextParse]_vars

----------------------------------------------------------------------------
(* Specification of one run of the Telegram sender *)

InitSender ==
    /\ SenderInit
    /\ OrchIdle /\ ClientIdle /\ ToolIdle /\ HotelToolIdle /\ ParseIdle /\ RunnerIdle /\ WikiInit

NextSender ==
    \/ SenderMain
    \/ SenderAgentRuns
    \/ AttachCityImages
    \/ BuildMessages
    \/ OpenBot
    \/ SendIdea
    \/ SendFinished

SpecSender == InitSender /\ [][NextSender]_vars

\* send_to_telegram called by itself
InitSendToTelegram ==
    /\ SendToTelegramInit
    /\ OrchIdle /\ ClientIdle /\ ToolIdle /\ HotelToolIdle /\ ParseIdle /\ RunnerIdle /\ WikiInit

NextSendToTelegram ==
    \/ OpenBot
    \/ SendIdea
    \/ SendFinished

SpecSendToTelegram == InitSendToTelegram /\ [][NextSendToTelegram]_vars

----------------------------------------------------------------------------
(* Specification of one run of the multi-channel runner *)

InitRunner ==
    /\ RunnerInit
    /\ OrchIdle /\ ClientIdle /\ ToolIdle /\ HotelToolIdle /\ ParseIdle /\ SenderIdle /\ WikiInit

NextRunner ==
    \/ RunnerMain
    \/ LaunchChannel
    \/ ChannelExits
    \/ RunChannelOnKey
    \/ RunnerSummary

SpecRunner == InitRunner /\ [][NextRunner]_vars

----------------------------------------------------------------------------
(* Specification of the image-lookup tool *)

InitWiki ==
    /\ WikiInit
    /\ OrchIdle /\ ClientIdle /\ ToolIdle /\ HotelToolIdle /\ ParseIdle /\ SenderIdle /\ RunnerIdle

NextWiki ==
    \/ GetWikipediaImage
    \/ WikiLookupEnds

SpecWiki == InitWiki /\ [][NextWiki]_vars

----------------------------------------------------------------------------
(* Claims about the orchestration run (Spec) *)

\* the run has left the graph through END: agent_orchestration returns the state
RunDone == node = "END"

\* the two ideas of a two-idea run name the same destination
SharedDestination ==
    /\ Len(flight_ideas) = 2
    /\ flight_ideas[1].destination_code = flight_ideas[2].destination_code

\* C1: when the run is done, combined_suggestions is as long as the Flight Agent's idea
\* list and its i-th entry carries the i-th idea, duplicates of a destination code and
\* failed hotel lookups included.
C1_MergeKeepsCountAndOrder ==
    RunDone =>
        /\ Len(combined_suggestions) = Len(flight_ideas)
        /\ \A i \in 1..Len(flight_ideas) : combined_suggestions[i].travel_idea = flight_ideas[i]

\* a finished run of two different ideas for one destination, the second lookup failed
C1_Witness ==
    /\ RunDone
    /\ SharedDestination
    /\ flight_ideas[1] # flight_ideas[2]
    /\ hotel_outcomes[2] # "ok"

\* C2: every idea whose Hotel Agent invocation raised has an empty hotel list recorded by
\* the stage and, when the run is done, hotels = [] in its CombinedSuggestion; and no
\* exception leaves hotel_agent_node.
C2_FailedLookupEndsWithNoHotels ==
    /\ \A i \in 1..Len(hotel_outcomes) :
         hotel_outcomes[i] # "ok" => hotel_results[i].hotels = <<>>
    /\ node = "RAISED" => hotel_calls = <<>>
    /\ RunDone =>
         \A i \in 1..Len(flight_ideas) :
            hotel_outcomes[i] # "ok" => combined_suggestions[i].hotels = <<>>

StageOrder == <<"START", "FlightAgent", "HotelAgent", "MergeOutput", "END">>

\* C3: the nodes entered so far are an initial piece of START, FlightAgent, HotelAgent,
\* MergeOutput, END (each entered at most once, in this order), the run is in the last
\* of them unless it has raised, and a node is entered only when its predecessor has
\* delivered its part of the state.
C3_StagesInOrder ==
    /\ \E n \in 1..Len(StageOrder) :
         /\ stage_log = SubSeq(StageOrder, 1, n)
         /\ node \in {stage_log[n], "RAISED"}
    /\ node = "RAISED" => stage_log = <<"START", "FlightAgent">>
    /\ node \in {"HotelAgent", "MergeOutput", "END"} => flight_llm_calls = 1
    /\ node \in {"MergeOutput", "END"} => Len(hotel_offers) = Len(flight_ideas)
    /\ node = "END" => Len(combined_suggestions) = Len(flight_ideas)

\* a finished run over two ideas that went through all five stages
C3_Witness ==
    /\ stage_log = StageOrder
    /\ node = "END"
    /\ Len(flight_ideas) = 2

\* C4: the Flight Agent is invoked once; the k-th Hotel Agent invocation is made with the
\* prompt of the k-th idea, at most one invocation is outstanding, every earlier one has
\* finished before the next starts, and after the stage there is one per idea.
C4_OneCallPerIdeaInOrder ==
    /\ flight_llm_calls <= 1
    /\ node \in {"HotelAgent", "MergeOutput", "END", "RAISED"} => flight_llm_calls = 1
    /\ Len(hotel_calls) <= Len(flight_ideas)
    /\ \A k \in 1..Len(hotel_calls) :
         /\ hotel_calls[k].city_code = flight_ideas[k].destination_code
         /\ hotel_calls[k].check_in = flight_ideas[k].travel_start_date.day
         /\ hotel_calls[k].check_out = flight_ideas[k].travel_end_date.day
    /\ Len(hotel_calls) - Len(hotel_outcomes) \in {0, 1}
    /\ Len(hotel_calls) - Len(hotel_outcomes) = 1 <=> (node = "HotelAgent" /\ at = "await")
    /\ node \in {"MergeOutput", "END"} =>
         /\ Len(hotel_calls) = Len(flight_ideas)
         /\ Len(hotel_outcomes) = Len(flight_ideas)

\* a finished run whose two lookups were made for two different prompts
C4_Witness ==
    /\ RunDone
    /\ Len(hotel_calls) = 2
    /\ hotel_calls[1] # hotel_calls[2]

\* the answers, among RawTexts, that hold no conforming JSON document once the fence is
\* taken off: text that is not JSON, a document of another shape, a fence around either,
\* a fence whose word json does not follow it directly, the empty string
NonConformingTexts == { <<"g">>, <<"N">>, <<"F", "j", "g", "F">>, <<"F", "w", "j", "V", "F">>, <<>> }

\* FlightAgent.run_agent holds a string answer that does not conform
FlightAnswerInvalid ==
    /\ node = "FlightAgent" /\ at = "parse"
    /\ llm_output.kind = "str"
    /\ llm_output.text \in NonConformingTexts

\* C5: when the LLM's answer to FlightAgent.run_agent is a string that does not conform,
\* run_agent raises a validation error with the LLM invoked exactly once, no ideas are
\* put in its place, and the LLM is not invoked again afterwards.
C5_InvalidAnswerRaisesOnce ==
    /\ [][FlightAnswerInvalid =>
            /\ node' = "RAISED"
            /\ error' = "ValidationError"
            /\ flight_llm_calls' = 1
            /\ flight_ideas' = <<>>]_vars
    /\ [][node = "RAISED" => UNCHANGED vars]_vars

\* the run has raised the validation error of the Flight Agent after one LLM invocation
C5_Witness ==
    /\ node = "RAISED"
    /\ error = "ValidationError"
    /\ flight_llm_calls = 1

\* C6 as stated: a validation error raised by the run_agent of either agent makes the run
\* fail, so a run that is done has seen none.
C6_AnyValidationErrorFailsRun ==
    /\ error = "ValidationError" => node = "RAISED"
    /\ \A k \in 1..Len(hotel_outcomes) :
         hotel_outcomes[k] = "ValidationError" => node \notin {"MergeOutput", "END"}

\* C6 amended: the exception of the Flight Agent's run_agent leaves the graph: the run
\* has raised exactly when it carries that exception, and then no Hotel Agent invocation,
\* no merge and no result exist; a validation error of the Hotel Agent's run_agent is
\* absorbed by hotel_agent_node as an empty hotel list and never makes the run raise.
C6_FlightErrorFailsRunHotelErrorAbsorbed ==
    /\ error # "none" <=> node = "RAISED"
    /\ node = "RAISED" =>
         /\ error \in {"ValidationError", "AgentRunError"}
         /\ hotel_calls = <<>> /\ hotel_outcomes = <<>>
         /\ hotel_offers = <<>> /\ combined_suggestions = <<>>
         /\ stage_log = <<"START", "FlightAgent">>
    /\ \A k \in 1..Len(hotel_outcomes) :
         hotel_outcomes[k] = "ValidationError" =>
            /\ node # "RAISED"
            /\ hotel_results[k].hotels = <<>>

\* a finished run in which the first Hotel Agent invocation raised a validation error
C6_Witness ==
    /\ RunDone
    /\ Len(hotel_outcomes) = 2
    /\ hotel_outcomes[1] = "ValidationError"
    /\ combined_suggestions[1].hotels = <<>>
    /\ combined_suggestions[2].hotels # <<>>

----------------------------------------------------------------------------
(* Claims about AmadeusClient (SpecClient) *)

NetworkOrHttpError == {"HTTPError4xx", "HTTPError5xx", "ConnectionError"}

\* C7: a search call makes at most max_retries HTTP attempts; every attempt but the last
\* raised a network/HTTP exception; a call that returned ended with its first successful
\* attempt; a call that surfaced an error either hit an exception that is not retried or
\* used up all max_retries attempts.
C7_BoundedRetries ==
    call_state # "idle" =>
        /\ Len(attempt_log) <= max_retries
        /\ \A i \in 1..(Len(attempt_log) - 1) : attempt_log[i] \in NetworkOrHttpError
        /\ call_state = "running" =>
             /\ Len(attempt_log) < max_retries
             /\ \A i \in 1..Len(attempt_log) : attempt_log[i] \in NetworkOrHttpError
        /\ call_state = "returned" =>
             /\ attempt_log # <<>>
             /\ attempt_log[Len(attempt_log)] = "ok"
             /\ call_error = "none"
        /\ call_state = "raised" =>
             /\ attempt_log # <<>>
             /\ attempt_log[Len(attempt_log)] # "ok"
             /\ call_error # "none"
             /\ attempt_log[Len(attempt_log)] \in NetworkOrHttpError =>
                  /\ Len(attempt_log) = max_retries
                  /\ call_error = "RetryError"

\* a call that gave up after max_retries failed attempts
C7_Witness ==
    /\ call_state = "raised"
    /\ call_error = "RetryError"
    /\ Len(attempt_log) = max_retries

\* C8: a search call whose attempt was answered with a 4xx client error makes no further
\* attempt: that attempt is its only one and the call has surfaced the error.
C8_ClientErrorNotRetried ==
    \A i \in 1..Len(attempt_log) :
        attempt_log[i] = "HTTPError4xx" =>
            /\ Len(attempt_log) = 1
            /\ call_state = "raised"

\* a credential that is neither passed nor configured
Absent(arg, cfg) == arg \in {None, ""} /\ cfg \in {None, ""}

\* C9: with the client id or the client secret absent, the constructor sends no
\* authentication request, the client never gets a token, and the construction can only
\* end in ValueError.
C9_NoCredentialsNoClient ==
    (Absent(cred.arg_id, cred.cfg_id) \/ Absent(cred.arg_secret, cred.cfg_secret)) =>
        /\ client_state \in {"new", "ctor_failed"}
        /\ client_state = "ctor_failed" => ctor_error = "ValueError"
        /\ auth_log = <<>>
        /\ access_token = None
        /\ call_state = "idle"

\* a construction that failed with the id passed and the secret absent
C9_Witness ==
    /\ client_state = "ctor_failed"
    /\ ctor_error = "ValueError"
    /\ cred.arg_id = "id"
    /\ Absent(cred.arg_secret, cred.cfg_secret)

----------------------------------------------------------------------------
(* Claims about the Flight Agent's inspiration tool (SpecTool) *)

ToolFinished == tool_state \in {"returned", "raised"}

\* C10 as stated: with the sample fixture in place, an invocation whose live call failed,
\* in whatever way, has returned exactly the fixture's records.
C10_AnyFailureFallsBack ==
    (ToolFinished /\ fixture.loaded /\ fixture.has_data /\ live_outcome.kind \notin {"ok", "none"}) =>
        /\ tool_state = "returned"
        /\ tool_result = fixture.data

\* C10 amended: an invocation whose live call raised ResponseError returns exactly the
\* records of the sample's "data" list, all of them in their order (none when the sample
\* has no such list), and raises RuntimeError when the sample cannot be loaded; a live
\* call that raised any other exception makes the invocation raise that exception.
C10_ResponseErrorFallsBack ==
    ToolFinished =>
        /\ live_outcome.kind = "ResponseError" =>
             IF fixture.loaded
             THEN /\ tool_state = "returned"
                  /\ tool_result = (IF fixture.has_data THEN fixture.data ELSE <<>>)
                  /\ tool_error = "none"
             ELSE /\ tool_state = "raised"
                  /\ tool_error = "RuntimeError"
        /\ live_outcome.kind = "OtherError" =>
             /\ tool_state = "raised"
             /\ tool_error = "OtherError"
             /\ tool_result = <<>>

\* an invocation that fell back after a ResponseError and returned a two-record sample
C10_Witness ==
    /\ tool_state = "returned"
    /\ live_outcome.kind = "ResponseError"
    /\ Len(fixture.data) = 2
    /\ tool_result = fixture.data

----------------------------------------------------------------------------
(* Claims about the Hotel Agent's search tool (SpecHotelTool) *)

HotelToolFinished == hs_state \in {"returned", "raised"}

\* C11: the tool never propagates a provider error: no invocation raises ResponseError, and
\* an invocation in which the hotel-id lookup or the offer-price lookup failed with the
\* provider's ResponseError has returned the sentinel None.
C11_ProviderErrorGivesNone ==
    /\ hs_error # "ResponseError"
    /\ (HotelToolFinished /\ "ResponseError" \in {hs_hotels.kind, hs_offers.kind}) =>
          /\ hs_state = "returned"
          /\ hs_result.is_none
          /\ hs_error = "none"

\* an invocation whose hotel-id lookup found hotels and whose offer-price lookup failed
C11_Witness ==
    /\ hs_state = "returned"
    /\ hs_hotels.kind = "ok" /\ hs_hotels.count > 0
    /\ hs_offers.kind = "ResponseError"
    /\ hs_result = ReturnedNone

----------------------------------------------------------------------------
(* Claims about run_agent's handling of a textual answer (SpecParse) *)

\* the answer is a conforming document in the given layout, with whatever whitespace
ValidIn(wrapping) ==
    /\ pa_output.kind = "str"
    /\ \E p \in Paddings : pa_output.text = AnswerText("V", wrapping, p)

\* what run_agent yields for the same document returned bare, without any whitespace
BareResult == RunAgentOf(pa_agent, [kind |-> "str", text |-> <<"V">>, payload |-> pa_output.payload])

\* C12: for a JSON text that validates against the output schema, run_agent yields the same
\* structured result, the document's payload, whether the text came bare, in a ```json
\* fence or in a ``` fence, with any surrounding whitespace; and the fence handling leaves
\* an unfenced document as it was.
C12_FenceDoesNotChangeResult ==
    pa_state = "done" =>
        /\ \A w \in Wrappings :
             ValidIn(w) =>
                 /\ pa_result = BareResult
                 /\ ~pa_result.raised
                 /\ pa_result.value = pa_output.payload
        /\ ValidIn("bare") => pa_stripped = Strip(pa_output.text)

\* a document in a plain fence with whitespace at every place, parsed into two ideas
C12_Witness ==
    /\ pa_state = "done"
    /\ pa_agent = "flight"
    /\ pa_output.kind = "str"
    /\ pa_output.text = <<"w", "F", "w", "V", "w", "F", "w">>
    /\ ~pa_result.raised
    /\ Len(pa_result.value.ideas) = 2

----------------------------------------------------------------------------
(* Claims about the Telegram sender (SpecSender) *)

\* send_to_telegram has gone through its list and returned
SendDone == tg_session = "closed"

\* C13: send_to_telegram makes one delivery attempt per idea message, in list order: the
\* k-th call delivers the k-th message, the loop stands right behind the last attempt, and
\* when it is over every message has had its attempt, whatever attempts failed before it.
C13_OneAttemptPerMessageInOrder ==
    /\ \A k \in 1..Len(tg_calls) :
          /\ tg_calls[k].msg = k
          /\ tg_calls[k].text = tg_messages[k].caption
    /\ tg_pc = "send" => Len(tg_calls) = tg_pos - 1
    /\ SendDone => Len(tg_calls) = Len(tg_messages)

\* a finished send whose first delivery failed and whose second was still attempted
C13_Witness ==
    /\ SendDone
    /\ Len(tg_calls) = 2
    /\ tg_calls[1].outcome = "raise"
    /\ tg_calls[2].msg = 2

\* C14 as stated: when the photo send of an idea is rejected, the idea's caption is then
\* sent as a plain text message.
C14_RejectedPhotoFallsBackToText ==
    SendDone =>
        \A k \in 1..Len(tg_calls) :
            (tg_calls[k].op = "send_photo" /\ tg_calls[k].outcome = "raise") =>
                \E j \in (k + 1)..Len(tg_calls) :
                    /\ tg_calls[j].op = "send_message"
                    /\ tg_calls[j].msg = tg_calls[k].msg
                    /\ tg_calls[j].text = tg_calls[k].text

\* links that point at an image file
IsDirectImageLink(url) == url = "https://photos/city.jpeg"

\* C15 as stated: an idea whose image URL is not a direct image-file link is delivered with
\* a text message only, never with the photo operation.
C15_NonImageLinkSentAsText ==
    \A k \in 1..Len(tg_calls) :
        ~IsDirectImageLink(tg_messages[tg_calls[k].msg].photo_url) =>
            tg_calls[k].op = "send_message"

Contains(caption, part) == \E i \in 1..Len(caption) : caption[i] = part

\* C16 as stated: the caption of a suggestion without hotels carries the "no hotel offers"
\* notice and no hotel section; the caption of a suggestion with a hotel carries the hotel
\* section and no notice.
C16_CaptionTellsAboutHotels ==
    \A i \in 1..Len(tg_messages) :
        IF tg_ideas[i].hotel = None
        THEN /\ Contains(tg_messages[i].caption, "no_hotel_offers")
             /\ ~Contains(tg_messages[i].caption, "recommended_hotel")
        ELSE /\ Contains(tg_messages[i].caption, "recommended_hotel")
             /\ ~Contains(tg_messages[i].caption, "no_hotel_offers")

\* C19: when run_agent raises in main, the process exits with status 1 and no message is
\* sent to the channel.
C19_AgentErrorExitsOneNothingSent ==
    tg_answer.kind = "raise" =>
        /\ tg_pc = "done"
        /\ tg_exit = Exited(1)
        /\ tg_calls = <<>>
        /\ tg_session = "none"

\* a run with complete Telegram settings whose agent raised
C19_Witness ==
    /\ tg_answer.kind = "raise"
    /\ Truthy(tg_cfg.bot_token) /\ Truthy(tg_cfg.channel_id)
    /\ tg_exit.exited

\* C20 as stated: when the send operation raises for the messages of a run, main ends with
\* exit status 1.
C20_SendErrorExitsOne ==
    (SendDone /\ tg_calls # <<>> /\ \A k \in 1..Len(tg_calls) : tg_calls[k].outcome = "raise") =>
        tg_exit = Exited(1)

----------------------------------------------------------------------------
(* Claims about the multi-channel runner (SpecRunner) *)

\* main is processing, or has processed, a non-empty list of channel configurations
ProcessingChannels == rc_load.kind = "list" /\ rc_chan # <<>>

Failed(i) == rc_chan[i] = "failed"

C18_EnvAcceptsSameShapesAsFile ==
    (rc_pc # "start" /\ rc_args.source \in {"file", "env"} /\ rc_input.present) =>
        IF rc_input.doc.shape \in {"array", "channels_object"}
        THEN /\ ~rc_load.raised
             /\ rc_load.kind = "list"
             /\ rc_load.items = rc_input.doc.channels
        ELSE rc_load.raised

----------------------------------------------------------------------------
(* Further claims about the orchestration run (Spec) *)

\* C23 as stated: within one run no destination code is put to the Hotel Agent twice.
C23_NoDestinationQueriedTwice ==
    \A i, j \in 1..Len(hotel_calls) :
        i # j => hotel_calls[i].city_code # hotel_calls[j].city_code

\* positions of the records of hotel_offers that carry the code
RecordsOf(code) == { k \in 1..Len(hotel_offers) : hotel_offers[k].destination_code = code }

\* C24: when the run is done, the hotels of each idea's suggestion are those of the first
\* record of hotel_offers with the idea's destination_code, the empty list if there is no
\* such record; two ideas with one destination_code both carry the hotels of the first
\* lookup for that code.
C24_MergeTakesFirstRecordOfCode ==
    RunDone =>
        /\ \A i \in 1..Len(flight_ideas) :
             LET matches == RecordsOf(flight_ideas[i].destination_code)
             IN  IF matches = {}
                 THEN combined_suggestions[i].hotels = <<>>
                 ELSE \E k \in matches :
                        /\ \A m \in matches : k <= m
                        /\ combined_suggestions[i].hotels = hotel_offers[k].hotels
        /\ \A i, j \in 1..Len(flight_ideas) :
             (i < j /\ flight_ideas[i].destination_code = flight_ideas[j].destination_code) =>
                 combined_suggestions[j].hotels = combined_suggestions[i].hotels

\* a finished run of two ideas for one destination whose lookups gave different hotels
C24_Witness ==
    /\ RunDone
    /\ SharedDestination
    /\ hotel_offers[1].hotels # <<>>
    /\ hotel_offers[2].hotels # hotel_offers[1].hotels
    /\ combined_suggestions[2].hotels = hotel_offers[1].hotels

\* C25 as stated: every hotel attached to a suggestion has the check-in and check-out
\* dates of the suggestion's idea.
C25_HotelDatesMatchIdea ==
    RunDone =>
        \A i \in 1..Len(combined_suggestions) :
            \A n \in 1..Len(combined_suggestions[i].hotels) :
                /\ combined_suggestions[i].hotels[n].check_in_date
                      = combined_suggestions[i].travel_idea.travel_start_date
                /\ combined_suggestions[i].hotels[n].check_out_date
                      = combined_suggestions[i].travel_idea.travel_end_date

\* C29: once the HotelStage has finished, hotel_offers holds one record per flight idea,
\* in idea order, each with the destination_code of its idea; so when the run is done
\* every idea has a record of its code and its hotels come from such a record.
C29_OneRecordPerIdeaWithItsCode ==
    /\ node \in {"MergeOutput", "END"} =>
          /\ Len(hotel_offers) = Len(flight_ideas)
          /\ \A k \in 1..Len(flight_ideas) :
                hotel_offers[k].destination_code = flight_ideas[k].destination_code
    /\ RunDone =>
          \A i \in 1..Len(flight_ideas) :
              \E k \in 1..Len(hotel_offers) :
                  /\ hotel_offers[k].destination_code = flight_ideas[i].destination_code
                  /\ combined_suggestions[i].hotels = hotel_offers[k].hotels

\* a finished run of two ideas for two destinations, with hotels found for the second
C29_Witness ==
    /\ RunDone
    /\ Len(flight_ideas) = 2
    /\ flight_ideas[1].destination_code # flight_ideas[2].destination_code
    /\ hotel_outcomes[2] = "ok"
    /\ hotel_offers[2].hotels # <<>>

----------------------------------------------------------------------------
(* Further claims about AmadeusClient (SpecClient) *)

\* C26: a successfully constructed client has its access_token set, and no step taken on a
\* constructed client, whatever search attempt succeeds, is retried or fails, changes the
\* token, sends an authentication request or takes the client out of its ready state.
C26_TokenSetOnceNeverRenewed ==
    [][ /\ client_state' = "ready" => access_token' \notin {None, ""}
        /\ client_state = "ready" =>
              /\ access_token' = access_token
              /\ auth_log' = auth_log
              /\ client_state' = "ready" ]_vars

\* a constructed client whose second search call ended on a client error of the provider
C26_Witness ==
    /\ client_state = "ready"
    /\ access_token = "token"
    /\ calls_done = 2
    /\ call_state = "raised"
    /\ attempt_log[Len(attempt_log)] = "HTTPError4xx"

----------------------------------------------------------------------------
(* Further claims about the Hotel Agent's search tool (SpecHotelTool) *)

\* C27 as stated: the tool hands at most 3 offers back, however many the provider returned.
C27_AtMostThreeOffers == hs_result.offers <= 3

\* C28: an invocation makes one attempt: the loop variable never passes 1, the hotel-id
\* lookup is called at most once and the offer lookup at most once, after it; the first
\* iteration ends the invocation by returning the offers, by returning None on a
\* ResponseError, or by letting another exception through.
C28_OneAttemptPerCall ==
    /\ hs_attempt <= 1
    /\ hs_requests \in {<<>>, <<"by_city">>, <<"by_city", "offers_search">>}
    /\ HotelToolFinished =>
          /\ hs_attempt = 1
          /\ hs_requests # <<>>
          /\ LET last == IF Len(hs_requests) = 1 THEN hs_hotels ELSE hs_offers
             IN  CASE last.kind = "ok" ->
                        /\ Len(hs_requests) = 2
                        /\ hs_state = "returned" /\ ~hs_result.is_none
                        /\ hs_result.offers = hs_offers.count
                   [] last.kind = "ResponseError" -> hs_state = "returned" /\ hs_result.is_none
                   [] OTHER -> hs_state = "raised" /\ hs_error = last.kind

\* an invocation that ended on a ResponseError of the hotel-id lookup, after one request
C28_Witness ==
    /\ hs_state = "returned"
    /\ hs_hotels.kind = "ResponseError"
    /\ hs_requests = <<"by_city">>
    /\ hs_attempt = 1
    /\ hs_result = ReturnedNone

----------------------------------------------------------------------------
(* Further claims about the multi-channel runner (SpecRunner) *)

Ended(state) == state \in {"ok", "failed"}

\* in a parallel run: no summary and no exit status while a channel is unfinished, and the
\* i-th result is the outcome of the i-th channel
ParallelResultsInChannelOrder ==
    (rc_args.parallel /\ ProcessingChannels) =>
        /\ rc_pc = "running" => rc_exit = Running /\ rc_results = <<>>
        /\ rc_pc = "done" =>
              /\ \A i \in 1..Len(rc_chan) : Ended(rc_chan[i])
              /\ Len(rc_results) = Len(rc_chan)
              /\ \A i \in 1..Len(rc_chan) : rc_results[i] = rc_chan[i]

\* in a parallel run: a step ends or starts at most one channel, leaves the outcome of
\* every ended channel as it was and takes no started channel back
ChannelsDoNotInterfere ==
    (rc_args.parallel /\ ProcessingChannels) =>
        /\ Len(rc_chan') = Len(rc_chan)
        /\ \A i \in 1..Len(rc_chan) :
              /\ Ended(rc_chan[i]) => rc_chan'[i] = rc_chan[i]
              /\ rc_chan[i] = "running" => rc_chan'[i] \in {"running", "ok", "failed"}
        /\ \A i, j \in 1..Len(rc_chan) :
              (rc_chan'[i] # rc_chan[i] /\ rc_chan'[j] # rc_chan[j]) => i = j

\* C30: in parallel mode, for every interleaving of the channels' executions, the i-th
\* reported result is the outcome of the i-th configured channel, the end of one channel,
\* failed or not, neither cancels nor changes another channel, and the summary and the
\* exit status come only after every channel has finished.
C30_ParallelChannelsIndependent ==
    []ParallelResultsInChannelOrder /\ [][ChannelsDoNotInterfere]_vars

\* a parallel run whose second channel finished first, with success, before the first failed
C30_Witness ==
    /\ rc_args.parallel
    /\ rc_pc = "done"
    /\ rc_finished = <<2, 1>>
    /\ rc_chan = <<"failed", "ok">>
    /\ rc_results = <<"failed", "ok">>
    /\ rc_exit = Exited(1)

----------------------------------------------------------------------------
(* Claims about send_to_telegram called by itself (SpecSendToTelegram) *)

SettingsMissing == ~Truthy(tg_cfg.bot_token) \/ ~Truthy(tg_cfg.channel_id)

BotCreated == tg_session # "none"

\* C21: a call of send_to_telegram that created a Bot has closed the bot's session exactly
\* once when it returns or raises, and never more than once, whatever sends failed; a call
\* with a missing bot token or channel id raises ValueError without creating a Bot or
\* sending anything.
C21_SessionClosedOnceOrValueError ==
    /\ tg_closes <= 1
    /\ ~BotCreated => tg_closes = 0
    /\ tg_session = "open" => tg_closes = 0 /\ tg_pc = "send"
    /\ (tg_pc = "done" /\ BotCreated) => tg_session = "closed" /\ tg_closes = 1
    /\ (tg_pc = "done" /\ SettingsMissing) =>
          /\ tg_error = "ValueError"
          /\ ~BotCreated
          /\ tg_calls = <<>>
    /\ tg_error = "ValueError" => SettingsMissing

\* a call that raised after a failed send, with its session closed once
C21_Witness ==
    /\ tg_pc = "done"
    /\ tg_error = "UnpackError"
    /\ tg_calls # <<>>
    /\ tg_calls[1].outcome = "raise"
    /\ tg_session = "closed"
    /\ tg_closes = 1

----------------------------------------------------------------------------
(* Claims about get_wikipedia_image (SpecWiki) *)

\* C22 as stated: get_wikipedia_image never raises; whatever the lookup came to (network
\* error, error status, a body that is not JSON, JSON without the expected keys, a page
\* without a thumbnail), a finished call has returned one image URL or None.
C22_ImageLookupNeverRaises ==
    /\ wk_state # "raised"
    /\ wk_result.kind # "raised"

=============================================================================
